---- MODULE Spec2Model ----
(***************************************************************************)
(* A model of xarray_esgf.client.Client: the bounded-retry download() and  *)
(* the open_dataset() assembly pipeline (load and group, per-group combine *)
(* and reconciliation, expansion, cross-group combine).                    *)
(*                                                                         *)
(* The collaborators the client calls (esgpull's download and file-system  *)
(* check, the array reader) are the environment: their answers are chosen  *)
(* nondeterministically within their interface.                            *)
(***************************************************************************)
EXTENDS Integers, Sequences, FiniteSets, TLC

VARIABLES
    files,        \* Client.files: the catalog, a sequence of file descriptors
    retries,      \* Client.retries
    check_files,  \* Client.check_files
    local,        \* the local store: file index -> "absent" | "corrupt" | "ok"
    written,      \* the files the retrieval service has written to the local store
    pc,           \* position of the client: "idle", "retry", ...
    attempt,      \* iterations of download()'s for loop done in the running call
    acc,          \* download(): the local list `files` (retrieved so far)
    errors,       \* download(): `errors` of the last attempt, file index -> err
    outcome,      \* how the last download() call ended
    requests,     \* per attempt of the running/last call: the set handed to the service
    localAt,      \* per attempt: the local store when the request was made
    errsAt,       \* per attempt: the errors the service reported
    missing0,     \* missing_files when the last download() call started
    calls,        \* download() calls completed
    cleanRun,     \* a completed download() call ended with an attempt without errors
    cleanAtStart, \* cleanRun when the running/last download() call started
    op,           \* the public operation running or last run: "none", "download", "open_dataset"
    args,         \* open_dataset(): its arguments
    opened,       \* open_dataset(): the locations handed to the array reader, in order
    grouped,      \* _open_datasets(): grouped_objects, in insertion order
    combined,     \* _open_datasets(): combined_datasets, in insertion order
    result        \* how the last open_dataset() call ended, and the container returned

dvars == <<files, retries, check_files, local, written, pc, attempt, acc, errors, outcome,
           requests, localAt, errsAt, missing0, calls, cleanRun, cleanAtStart>>

ovars == <<op, args, opened, grouped, combined, result>>

vars == <<dvars, ovars>>

dvars_but_pc == <<files, retries, check_files, local, written, attempt, acc, errors, outcome,
                  requests, localAt, errsAt, missing0, calls, cleanRun, cleanAtStart>>

-----------------------------------------------------------------------------
(* Bounds *)

MaxFiles == 2
MaxRetries == 1
MaxCalls == 2

\* The retry settings tried: a negative one, none, and up to MaxRetries.
RetrySettings == -1..MaxRetries

-----------------------------------------------------------------------------
(* The retrieval service's error values.  esgpull reports a failed file as  *)
(* an entry whose err is a BaseException; line 132 tells the Exceptions     *)
(* from the others (a cancelled transfer).                               *)

Exceptions == {"OSError"}
NotExceptions == {"CancelledError"}
ErrValues == Exceptions \cup NotExceptions

FileStates == {"absent", "corrupt", "ok"}

FileIds == 1..Len(files)

\* Sequence of the elements of the set S of integers, ascending (catalog order).
RECURSIVE SetToSeq(_)
SetToSeq(S) ==
    IF S = {} THEN <<>>
    ELSE LET m == CHOOSE x \in S : \A y \in S : x <= y
         IN <<m>> \o SetToSeq(S \ {m})

Range(s) == {s[i] : i \in DOMAIN s}

\* Op applied to the value of v.
With(v, Op(_)) == CHOOSE r \in {Op(x) : x \in {v}} : TRUE

-----------------------------------------------------------------------------
(* The identity codec: dataset_id_to_dict.  A dataset_id is a sequence of   *)
(* one-character strings.                                                  *)

DATASET_ID_KEYS ==
    <<"project", "activity_id", "institution_id", "source_id", "experiment_id",
      "variant_label", "table_id", "variable_id", "grid_label", "version">>

BOUNDS_DIMS == {"axis_nbounds", "bnds", "nbnd"}

\* str.split(sep): the pieces between the separators, empty pieces kept.
RECURSIVE Split(_, _)
Split(s, sep) ==
    IF \A i \in DOMAIN s : s[i] # sep
    THEN <<s>>
    ELSE LET i == CHOOSE j \in DOMAIN s :
                      s[j] = sep /\ \A h \in 1..(j - 1) : s[h] # sep
         IN <<SubSeq(s, 1, i - 1)>> \o Split(SubSeq(s, i + 1, Len(s)), sep)

KeyIndex(k) == CHOOSE i \in DOMAIN DATASET_ID_KEYS : DATASET_ID_KEYS[i] = k

Min(a, b) == IF a <= b THEN a ELSE b

\* zip(keys, tokens) without strict=True: the shorter of the two decides.
dataset_id_to_dict_lenient(dataset_id) ==
    LET toks == Split(dataset_id, ".")
        n == Min(Len(toks), Len(DATASET_ID_KEYS))
    IN [err |-> FALSE,
        dict |-> [k \in {DATASET_ID_KEYS[i] : i \in 1..n} |-> toks[KeyIndex(k)]]]

\* dict(zip(keys, dataset_id.split("."), strict=True)): a ValueError unless
\* the split yields as many tokens as there are keys.
dataset_id_to_dict(dataset_id) ==
    LET toks == Split(dataset_id, ".")
    IN IF Len(toks) = Len(DATASET_ID_KEYS)
       THEN [err |-> FALSE,
             dict |-> [k \in Range(DATASET_ID_KEYS) |-> toks[KeyIndex(k)]]]
       ELSE [err |-> TRUE, dict |-> <<>>]

-----------------------------------------------------------------------------
(* Containers (xarray Datasets), as far as the client looks at them:       *)
(*   dims   the dimension names, in order                                  *)
(*   sizes  dimension -> length                                            *)
(*   idx    dimension -> labels, for the dimensions that have an index     *)
(*          coordinate                                                     *)
(*   vars   name -> [dims, coord, val, attrs] for the other variables; val *)
(*          is <<v>> for a variable without dimensions and <<>> for a lazy *)
(*          array                                                          *)

EmptyDs == [dims |-> <<>>, sizes |-> <<>>, idx |-> <<>>, vars |-> <<>>]

Variables(ds) == DOMAIN ds.idx \cup DOMAIN ds.vars
Coords(ds) == DOMAIN ds.idx \cup {v \in DOMAIN ds.vars : ds.vars[v].coord}
DataVars(ds) == {v \in DOMAIN ds.vars : ~ds.vars[v].coord}

Restrict(f, S) == [x \in S |-> f[x]]

\* ds.drop_vars(names): the variables go, the dimensions stay.
DropVars(ds, names) ==
    [ds EXCEPT !.idx = Restrict(ds.idx, DOMAIN ds.idx \ names),
               !.vars = Restrict(ds.vars, DOMAIN ds.vars \ names)]

\* ds.sel({k: slice(lo, hi)}) on the dimensions of sel that ds has (line 175).
SelDs(ds, sel) ==
    LET on == DOMAIN sel \cap DOMAIN ds.idx
        keep(d) == LET In(x) == sel[d].lo <= x /\ x <= sel[d].hi
                   IN SelectSeq(ds.idx[d], In)
    IN [ds EXCEPT
          !.idx = [d \in DOMAIN ds.idx |-> IF d \in on THEN keep(d) ELSE ds.idx[d]],
          !.sizes = [d \in DOMAIN ds.sizes |->
                        IF d \in on THEN Len(keep(d)) ELSE ds.sizes[d]]]

\* Lines 177-178: a container that holds one of the named variables loses
\* its lat and lon variables.
IgnoreSpatial(ds, ignore) ==
    IF ignore \cap Variables(ds) # {}
    THEN DropVars(ds, Variables(ds) \cap {"lat", "lon"})
    ELSE ds

\* The same without the test of line 180: every container is kept.
KeepAll(ds) == TRUE

\* all(ds.sizes.values()) (line 180)
AllSizes(ds) == \A d \in DOMAIN ds.sizes : ds.sizes[d] # 0

-----------------------------------------------------------------------------
(* Orders: Python's order of strings, on the characters and the variable   *)
(* names the catalog uses; the labels of an identity axis are tokens, all  *)
(* other labels are numbers.                                               *)

CharOrder ==
    <<".", "A", "C", "E", "M", "S", "a", "b", "c", "f", "g", "p", "r", "t", "v", "x">>

NameOrder == <<"areacella", "height", "pr", "tas", "time_bnds", "type">>

Code(c) == CHOOSE i \in DOMAIN CharOrder : CharOrder[i] = c
NameCode(n) == CHOOSE i \in DOMAIN NameOrder : NameOrder[i] = n

RECURSIVE TokenLess(_, _)
TokenLess(a, b) ==
    IF a = <<>> THEN b # <<>>
    ELSE IF b = <<>> THEN FALSE
    ELSE IF Head(a) = Head(b) THEN TokenLess(Tail(a), Tail(b))
    ELSE Code(Head(a)) < Code(Head(b))

RECURSIVE IntSeqLess(_, _)
IntSeqLess(a, b) ==
    IF a = <<>> THEN b # <<>>
    ELSE IF b = <<>> THEN FALSE
    ELSE IF Head(a) = Head(b) THEN IntSeqLess(Tail(a), Tail(b))
    ELSE Head(a) < Head(b)

LabelLess(d, a, b) ==
    IF d \in Range(DATASET_ID_KEYS) THEN TokenLess(a, b) ELSE a < b

Increasing(d, s) == \A i \in 1..(Len(s) - 1) : ~LabelLess(d, s[i + 1], s[i])
Decreasing(d, s) == \A i \in 1..(Len(s) - 1) : ~LabelLess(d, s[i], s[i + 1])

-----------------------------------------------------------------------------
(* combine_datasets: xr.combine_by_coords(datasets, join="exact",          *)
(* combine_attrs="drop_conflicts").  The library groups the datasets by    *)
(* their data variables, concatenates each group along the dimension       *)
(* coordinates on which its members differ (ordered by first label), and   *)
(* merges the groups; every concatenation and the merge align the other    *)
(* indexes with join="exact".                                              *)

Failed(kind) == [kind |-> kind, ds |-> EmptyDs]
Done(ds) == [kind |-> "ok", ds |-> ds]

\* combine_attrs="drop_conflicts": an attribute is kept when all the
\* objects that carry it agree on its value.
DropConflicts(attrsSet) ==
    [k \in {k \in UNION {DOMAIN a : a \in attrsSet} :
               \A a, b \in attrsSet : (k \in DOMAIN a /\ k \in DOMAIN b) => a[k] = b[k]}
        |-> (CHOOSE a \in attrsSet : k \in DOMAIN a)[k]]

\* The same with join="override": the labels are not compared.
AlignedAnyLabels(a, b, except) == TRUE

\* join="exact" on the dimensions two objects share, those of `except`
\* left out: equal labels where both have an index, equal sizes otherwise.
Aligned(a, b, except) ==
    \A e \in (DOMAIN a.sizes \cap DOMAIN b.sizes) \ except :
        IF e \in DOMAIN a.idx /\ e \in DOMAIN b.idx
        THEN a.idx[e] = b.idx[e]
        ELSE a.sizes[e] = b.sizes[e]

RECURSIVE ConcatLabels(_, _)
ConcatLabels(dss, d) ==
    IF dss = <<>> THEN <<>> ELSE Head(dss).idx[d] \o ConcatLabels(Tail(dss), d)

\* xr.concat(dss, dim=d): the first member, with the labels of d of all of
\* them in a row.
ConcatAlong(d, dss) ==
    With(ConcatLabels(dss, d), LAMBDA labels :
        [dss[1] EXCEPT
           !.idx[d] = labels,
           !.sizes[d] = Len(labels),
           !.vars = [v \in DOMAIN dss[1].vars |->
                        [dss[1].vars[v] EXCEPT !.attrs =
                            DropConflicts({dss[i].vars[v].attrs : i \in
                                {j \in DOMAIN dss : v \in DOMAIN dss[j].vars}})]]])

\* The entries of a tile row, ordered by their position along the first
\* concat dimension.
RECURSIVE SortByHead(_)
SortByHead(entries) ==
    IF entries = {} THEN <<>>
    ELSE With(CHOOSE e \in entries : \A o \in entries : e.tid[1] <= o.tid[1],
              LAMBDA m : <<m.ds>> \o SortByHead(entries \ {m}))

\* _combine_all_along_first_dim: the entries that share the rest of their
\* tile id are concatenated along d; None when a row is not aligned.
CombineAlongFirstDim(entries, d) ==
    With({Tail(e.tid) : e \in entries}, LAMBDA tails :
        IF \E e1, e2 \in entries :
               Tail(e1.tid) = Tail(e2.tid) /\ ~Aligned(e1.ds, e2.ds, {d})
        THEN {}
        ELSE {[tid |-> t,
               ds |-> ConcatAlong(d, SortByHead({e \in entries : Tail(e.tid) = t}))] :
                 t \in tails})

\* _combine_nd: concatenate along the concat dimensions one after the other.
RECURSIVE CombineND(_, _)
CombineND(entries, cdims) ==
    IF cdims = <<>>
    THEN Done((CHOOSE e \in entries : TRUE).ds)
    ELSE With(CombineAlongFirstDim(entries, Head(cdims)), LAMBDA rows :
             IF rows = {} THEN Failed("AlignmentError")
             ELSE CombineND(rows, Tail(cdims)))

\* _infer_concat_order_from_coords refuses: a member without an index on a
\* dimension coordinate of the first one, or a varying dimension coordinate
\* that is not monotonic the same way on all members, or is empty.
AllIncreasing(dss, d) == \A i \in DOMAIN dss : Increasing(d, dss[i].idx[d])
AllDecreasing(dss, d) == \A i \in DOMAIN dss : Decreasing(d, dss[i].idx[d])
Varies(dss, d) == \E i \in DOMAIN dss : dss[i].idx[d] # dss[1].idx[d]

CannotOrder(dss) ==
    With({d \in Range(dss[1].dims) : d \in DOMAIN dss[1].idx}, LAMBDA cands :
        \/ \E d \in cands : \E i \in DOMAIN dss : d \notin DOMAIN dss[i].idx
        \/ \E d \in cands :
              /\ Varies(dss, d)
              /\ \/ ~(AllIncreasing(dss, d) \/ AllDecreasing(dss, d))
                 \/ \E i \in DOMAIN dss : dss[i].idx[d] = <<>>)

\* The dimension coordinates on which the members differ, in the order of
\* the first member's dimensions.
ConcatDims(dss) ==
    LET Differs(d) == d \in DOMAIN dss[1].idx /\ Varies(dss, d)
    IN SelectSeq(dss[1].dims, Differs)

\* The dense rank of x among the first labels of the members along d.
Rank(dss, d, x) ==
    With(AllIncreasing(dss, d), LAMBDA ascending :
        Cardinality({y \in {dss[i].idx[d][1] : i \in DOMAIN dss} :
                        IF ascending THEN LabelLess(d, y, x) ELSE LabelLess(d, x, y)}))

TileIds(dss, cdims) ==
    [i \in DOMAIN dss |->
        [k \in DOMAIN cdims |-> Rank(dss, cdims[k], dss[i].idx[cdims[k]][1])]]

\* dict(zip(tile_ids, datasets)): the last dataset of a tile id stays.
CombinedIds(dss, cdims) ==
    With(TileIds(dss, cdims), LAMBDA tids :
        {[tid |-> tids[i],
          ds |-> dss[CHOOSE j \in DOMAIN dss :
                        tids[j] = tids[i] /\
                        \A h \in DOMAIN dss : tids[h] = tids[i] => h <= j]] :
            i \in DOMAIN dss})

Monotonic(ds, cdims) ==
    \A d \in Range(cdims) : Increasing(d, ds.idx[d]) \/ Decreasing(d, ds.idx[d])

\* _combine_single_variable_hypercube, on datasets with the same data
\* variables: _infer_concat_order_from_coords, _combine_nd and the check
\* that the result is monotonic along every concat dimension.
HypercubeOf(dss) ==
    IF CannotOrder(dss) THEN Failed("ValueError")
    ELSE With(ConcatDims(dss), LAMBDA cdims :
        IF Len(dss) > 1 /\ cdims = <<>> THEN Failed("ValueError")
        ELSE With(CombineND(CombinedIds(dss, cdims), cdims), LAMBDA r :
            IF r.kind = "ok" /\ ~Monotonic(r.ds, cdims)
            THEN Failed("ValueError")
            ELSE r))

Hypercube(datasets) == With(datasets, LAMBDA dss : HypercubeOf(dss))

\* The sorted tuple of the data variables' names: the key combine_by_coords
\* groups and orders the datasets by.
VarsAsKeys(ds) == SetToSeq({NameCode(v) : v \in DataVars(ds)})

RECURSIVE SortKeys(_)
SortKeys(keys) ==
    IF keys = {} THEN <<>>
    ELSE With(CHOOSE k \in keys : \A o \in keys : ~IntSeqLess(o, k),
              LAMBDA m : <<m>> \o SortKeys(keys \ {m}))

RECURSIVE Dedup(_)
Dedup(s) ==
    IF s = <<>> THEN <<>>
    ELSE LET NotHead(x) == x # Head(s)
         IN <<Head(s)>> \o Dedup(SelectSeq(Tail(s), NotHead))

RECURSIVE Flatten(_)
Flatten(ss) == IF ss = <<>> THEN <<>> ELSE Head(ss) \o Flatten(Tail(ss))

First(N, Has(_)) == CHOOSE i \in N : Has(i) /\ \A j \in N : Has(j) => i <= j

\* xr.merge(parts, join="exact", compat="override",
\* combine_attrs="drop_conflicts").
MergeAligned(parts) ==
    [dims |-> Dedup(Flatten([i \in DOMAIN parts |-> parts[i].dims])),
     sizes |-> [d \in UNION {DOMAIN parts[i].sizes : i \in DOMAIN parts} |->
                   parts[First(DOMAIN parts, LAMBDA i : d \in DOMAIN parts[i].sizes)].sizes[d]],
     idx |-> [d \in UNION {DOMAIN parts[i].idx : i \in DOMAIN parts} |->
                   parts[First(DOMAIN parts, LAMBDA i : d \in DOMAIN parts[i].idx)].idx[d]],
     vars |-> [v \in UNION {DOMAIN parts[i].vars : i \in DOMAIN parts} |->
                   [parts[First(DOMAIN parts, LAMBDA i : v \in DOMAIN parts[i].vars)].vars[v]
                       EXCEPT !.attrs =
                           DropConflicts({parts[i].vars[v].attrs : i \in
                               {j \in DOMAIN parts : v \in DOMAIN parts[j].vars}})]]]

MergeExact(parts) ==
    IF \E i, j \in DOMAIN parts : ~Aligned(parts[i], parts[j], {})
    THEN Failed("AlignmentError")
    ELSE Done(MergeAligned(parts))

\* The datasets grouped by their data variables, the groups in key order,
\* each combined on its own.
Cubes(dss) ==
    With(SortKeys({VarsAsKeys(dss[i]) : i \in DOMAIN dss}), LAMBDA keys :
        [c \in DOMAIN keys |->
            LET HasKey(ds) == VarsAsKeys(ds) = keys[c]
            IN Hypercube(SelectSeq(dss, HasKey))])

combine_by_coords(datasets) ==
    IF datasets = <<>> THEN Done(EmptyDs)
    ELSE With(Cubes(datasets), LAMBDA cubes :
        IF \E c \in DOMAIN cubes : cubes[c].kind # "ok"
        THEN cubes[First(DOMAIN cubes, LAMBDA c : cubes[c].kind # "ok")]
        ELSE MergeExact([c \in DOMAIN cubes |-> cubes[c].ds]))

combine_datasets(datasets) == With(datasets, LAMBDA dss : combine_by_coords(dss))

-----------------------------------------------------------------------------
(* The catalog: file descriptors after the files of the tests              *)
(* (tas, pr and areacella of two experiments), two of them with a          *)
(* dataset_id of nine and of eleven tokens.                                *)

Id(experiment, table, variable) ==
    <<"C", ".", "S", ".", "E", ".", "M", ".", experiment, ".", "r", ".",
      table, ".", variable, ".", "g", ".", "v">>

IdShort == <<"C", ".", "S", ".", "E", ".", "M", ".", "a", ".", "r", ".",
             "A", ".", "p", ".", "g">>

IdLong == Id("b", "A", "p") \o <<".", "x">>

Var(dims, coord, val) == [dims |-> dims, coord |-> coord, val |-> val, attrs |-> <<>>]

Grid == <<1, 2>>
GridShifted == <<1, 3>>
GridTile == <<3, 4>>

\* A monthly file of `name` at time step t on the latitudes lat; a tas
\* file carries the scalar coordinate height.
Monthly(name, t, lat, scalars) ==
    [dims |-> <<"time", "bnds", "lat", "lon">>,
     sizes |-> [d \in {"time", "bnds", "lat", "lon"} |-> IF d = "time" THEN 1 ELSE 2],
     idx |-> [d \in {"time", "lat", "lon"} |->
                 IF d = "time" THEN <<t>> ELSE IF d = "lat" THEN lat ELSE Grid],
     vars |-> [v \in {name, "time_bnds"} \cup DOMAIN scalars |->
                 IF v = name THEN Var({"time", "lat", "lon"}, FALSE, <<>>)
                 ELSE IF v = "time_bnds" THEN Var({"time", "bnds"}, FALSE, <<>>)
                 ELSE Var({}, TRUE, <<scalars[v]>>)]]

\* A fixed field (table fx) on the latitudes lat.
Fixed(name, lat, scalars) ==
    [dims |-> <<"lat", "lon">>,
     sizes |-> [d \in {"lat", "lon"} |-> 2],
     idx |-> [d \in {"lat", "lon"} |-> IF d = "lat" THEN lat ELSE Grid],
     vars |-> [v \in {name} \cup DOMAIN scalars |->
                 IF v = name THEN Var({"lat", "lon"}, FALSE, <<>>)
                 ELSE Var({}, TRUE, <<scalars[v]>>)]]

Height == [v \in {"height"} |-> 2]
HeightTen == [v \in {"height"} |-> 10]
Type == [v \in {"type"} |-> 7]
NoScalars == <<>>

File(id, ds) == [dataset_id |-> id, ds |-> ds]

Pool ==
    <<File(Id("a", "A", "t"), Monthly("tas", 1, Grid, Height)),
      File(Id("a", "A", "t"), Monthly("tas", 2, Grid, Height)),
      File(Id("b", "A", "t"), Monthly("tas", 1, Grid, Height)),
      File(Id("a", "A", "p"), Monthly("pr", 1, Grid, NoScalars)),
      File(Id("a", "f", "c"), Fixed("areacella", GridShifted, Type)),
      File(Id("c", "A", "t"), Monthly("tas", 1, GridTile, HeightTen)),
      File(IdShort, Monthly("pr", 1, Grid, NoScalars)),
      File(IdLong, Monthly("pr", 2, Grid, NoScalars))>>

\* The catalogs: the files of a set of pool positions, in pool order.
Catalogs ==
    {[k \in 1..Cardinality(S) |-> Pool[SetToSeq(S)[k]]] :
        S \in {T \in SUBSET DOMAIN Pool : Cardinality(T) \in 1..MaxFiles}}

\* The arguments of open_dataset().
NoArgs == [concat_dims |-> [t |-> "None", s |-> "", l |-> <<>>],
           download |-> FALSE, sel |-> <<>>, ignore |-> {}]

ConcatDimsChoices ==
    {[t |-> "None", s |-> "", l |-> <<>>],
     [t |-> "str", s |-> "experiment_id", l |-> <<>>],
     [t |-> "list", s |-> "", l |-> <<"variable_id">>]}

SelChoices == {<<>>, [d \in {"time"} |-> [lo |-> 2, hi |-> 2]]}

IgnoreChoices == {{}, {"areacella"}}

ArgChoices ==
    [concat_dims : ConcatDimsChoices, download : BOOLEAN,
     sel : SelChoices, ignore : IgnoreChoices]

-----------------------------------------------------------------------------
(* The per-group steps of _open_datasets and the steps of open_dataset      *)

\* ds.set_coords(...) of lines 191-195: a variable with a bounds dimension,
\* or without the time dimension, becomes a coordinate.
SetCoords(ds) ==
    [ds EXCEPT !.vars = [v \in DOMAIN ds.vars |->
        [ds.vars[v] EXCEPT !.coord =
            @ \/ BOUNDS_DIMS \cap ds.vars[v].dims # {} \/ "time" \notin ds.vars[v].dims]]]

\* Lines 58-61: the coordinates without dimensions, name -> value.
DimensionlessCoords(ds) ==
    [v \in {c \in DOMAIN ds.vars : ds.vars[c].coord /\ ds.vars[c].dims = {}} |->
        ds.vars[v].val[1]]

Update(old, new) ==
    [k \in DOMAIN old \cup DOMAIN new |-> IF k \in DOMAIN new THEN new[k] ELSE old[k]]

\* The same without line 64: the scalars are dropped and recorded nowhere.
move_dimensionless_coords_drop_only(ds) == DropVars(ds, DOMAIN DimensionlessCoords(ds))

\* Lines 57-65.
move_dimensionless_coords_to_attrs(ds) ==
    LET attrs == DimensionlessCoords(ds)
        dropped == DropVars(ds, DOMAIN attrs)
    IN [dropped EXCEPT !.vars = [v \in DOMAIN dropped.vars |->
           IF dropped.vars[v].coord THEN dropped.vars[v]
           ELSE [dropped.vars[v] EXCEPT !.attrs = Update(@, attrs)]]]

\* The same with the first identity field for the label of every new axis.
ExpandDimsFirstKey(ds, dict, cdims) ==
    [ds EXCEPT
       !.dims = cdims \o ds.dims,
       !.sizes = [d \in DOMAIN ds.sizes \cup Range(cdims) |->
                     IF d \in Range(cdims) THEN 1 ELSE ds.sizes[d]],
       !.idx = [d \in DOMAIN ds.idx \cup Range(cdims) |->
                     IF d \in Range(cdims) THEN <<dict[DATASET_ID_KEYS[1]]>> ELSE ds.idx[d]],
       !.vars = [v \in DOMAIN ds.vars |->
                     IF ds.vars[v].coord THEN ds.vars[v]
                     ELSE [ds.vars[v] EXCEPT !.dims = @ \cup Range(cdims)]]]

\* ds.expand_dims({dim: [dataset_id_dict[dim]] for dim in concat_dims}): a
\* new axis of length one per concat dim, in front, on the data variables.
ExpandDims(ds, dict, cdims) ==
    [ds EXCEPT
       !.dims = cdims \o ds.dims,
       !.sizes = [d \in DOMAIN ds.sizes \cup Range(cdims) |->
                     IF d \in Range(cdims) THEN 1 ELSE ds.sizes[d]],
       !.idx = [d \in DOMAIN ds.idx \cup Range(cdims) |->
                     IF d \in Range(cdims) THEN <<dict[d]>> ELSE ds.idx[d]],
       !.vars = [v \in DOMAIN ds.vars |->
                     IF ds.vars[v].coord THEN ds.vars[v]
                     ELSE [ds.vars[v] EXCEPT !.dims = @ \cup Range(cdims)]]]

\* ds.reset_coords(): the coordinates that are no index become data variables.
ResetCoords(ds) ==
    [ds EXCEPT !.vars = [v \in DOMAIN ds.vars |-> [ds.vars[v] EXCEPT !.coord = FALSE]]]

\* obj.set_coords(coords) of line 229.
SetCoordsTo(ds, coords) ==
    [ds EXCEPT !.vars = [v \in DOMAIN ds.vars |->
        [ds.vars[v] EXCEPT !.coord = @ \/ v \in coords]]]

\* Lines 152-154: a string is one concat dim, None is none.
NormConcatDims(raw) ==
    IF raw.t = "str" THEN <<raw.s>>
    ELSE IF raw.t = "None" THEN <<>>
    ELSE raw.l

\* The location chosen by the presence of the file in the local store.
LocationByPresence(download, st) == IF st = "ok" THEN "local" ELSE "url"

\* Line 168: the location handed to the array reader.
Location(download, st) == IF download THEN "local" ELSE "url"

OpenFailed(kind) == [kind |-> kind, ds |-> EmptyDs, dataset_ids |-> <<>>]

\* grouped_objects[dataset_id].append(ds) for the file i.
AddToGroup(g, id, ds, i) ==
    IF \E k \in DOMAIN g : g[k].id = id
    THEN LET k == CHOOSE h \in DOMAIN g : g[h].id = id
         IN [g EXCEPT ![k].members = Append(@, ds), ![k].from = Append(@, i)]
    ELSE Append(g, [id |-> id, members |-> <<ds>>, from |-> <<i>>])

\* One pass of the loader's loop (lines 167-181), for the file i.
LoadFile(st, i) ==
    With(Location(args.download, local[i]), LAMBDA loc :
        IF loc = "local" /\ local[i] # "ok"
        THEN \* the array reader finds no readable file
             [kind |-> "OSError", grouped |-> st.grouped,
              opened |-> Append(st.opened, [file |-> i, loc |-> loc])]
        ELSE With(IgnoreSpatial(SelDs(files[i].ds, args.sel), args.ignore), LAMBDA ds :
             [kind |-> "ok",
              grouped |-> IF AllSizes(ds)
                          THEN AddToGroup(st.grouped, files[i].dataset_id, ds, i)
                          ELSE st.grouped,
              opened |-> Append(st.opened, [file |-> i, loc |-> loc])]))

\* The loader's loop (lines 163-181) from file i on.
RECURSIVE Load(_, _)
Load(st, i) ==
    IF i > Len(files) \/ st.kind # "ok" THEN st
    ELSE With(LoadFile(st, i), LAMBDA next : Load(next, i + 1))

\* Lines 191-200 for one group: reconciliation and expansion.
ReconcileOne(g, ds, dict, cdims) ==
    With(SetCoords(ds), LAMBDA coorded :
    With(move_dimensionless_coords_to_attrs(coorded), LAMBDA hoisted :
        [id |-> g.id,
         scalars |-> DimensionlessCoords(coorded),
         reconciled |-> hoisted,
         ds |-> ExpandDims(hoisted, dict, cdims)]))

\* One pass of the loop of lines 184-201, for the group g.
ReconcileGroup(st, g) ==
    With(dataset_id_to_dict(g.id), LAMBDA parsed :
        IF parsed.err THEN [kind |-> "ParseError", combined |-> st.combined]
        ELSE With(IF Len(g.members) = 1 THEN Done(g.members[1])
                  ELSE combine_datasets(g.members), LAMBDA joined :
             IF joined.kind # "ok"
             THEN [kind |-> joined.kind, combined |-> st.combined]
             ELSE With(NormConcatDims(args.concat_dims), LAMBDA cdims :
                  IF \E d \in Range(cdims) : d \notin DOMAIN parsed.dict
                  THEN [kind |-> "KeyError", combined |-> st.combined]
                  ELSE [kind |-> "ok",
                        combined |-> Append(st.combined,
                            ReconcileOne(g, joined.ds, parsed.dict, cdims))])))

\* Lines 183-203 from group k on.
RECURSIVE Reconcile(_, _)
Reconcile(st, k) ==
    IF k > Len(grouped) \/ st.kind # "ok" THEN st
    ELSE With(ReconcileGroup(st, grouped[k]), LAMBDA next : Reconcile(next, k + 1))

RECURSIVE SortIds(_)
SortIds(ids) ==
    IF ids = {} THEN <<>>
    ELSE With(CHOOSE x \in ids : \A y \in ids : ~TokenLess(y, x),
              LAMBDA m : <<m>> \o SortIds(ids \ {m}))

\* Lines 224-237.  The chunk hints (lines 231-233) and the "coordinates"
\* attribute are metadata derived from the container and are not kept here.
Assemble(comb) ==
    With(combine_datasets([k \in DOMAIN comb |-> ResetCoords(comb[k].ds)]), LAMBDA obj :
        IF obj.kind # "ok" THEN OpenFailed(obj.kind)
        ELSE [kind |-> "ok",
              ds |-> SetCoordsTo(obj.ds, UNION {Coords(comb[k].ds) : k \in DOMAIN comb}),
              dataset_ids |-> SortIds({comb[k].id : k \in DOMAIN comb})])

-----------------------------------------------------------------------------
(* Client.n_tries *)

\* The same without the clamp of negative settings.
NTriesNoClamp(r) == r + 1

\* Line 98.
NTries(r) == IF r >= 0 THEN r + 1 ELSE 1

(* Client.missing_files: FileCheck.Ok is required when check_files is set,  *)
(* plain existence of the path otherwise.                                  *)

\* The same with `==` for `!=` in the strict check.
IsMissingInverted(chk, st) ==
    \/ chk /\ st = "ok"
    \/ ~chk /\ st = "absent"

\* Lines 113-115.
IsMissing(chk, st) ==
    \/ chk /\ st # "ok"
    \/ ~chk /\ st = "absent"

MissingFiles(store) == {f \in DOMAIN store : IsMissing(check_files, store[f])}

-----------------------------------------------------------------------------
(* Client.download *)

\* The exceptions of all the attempts up to k, had `errors` been extended
\* instead of rebound.
GroupOfAll(errsSeq, k) ==
    {[file |-> f, err |-> errsSeq[j][f], attempt |-> j] :
        <<j, f>> \in {<<j, f>> \in (1..k) \X FileIds :
                        f \in DOMAIN errsSeq[j] /\ errsSeq[j][f] \in Exceptions}}

\* Lines 129-133: the exceptions download() puts in the ExceptionGroup, the
\* entries of `errors` (bound by attempt k, the last) whose err is an
\* Exception.
ExceptionsRaised(errsSeq, k) ==
    {[file |-> f, err |-> errsSeq[k][f], attempt |-> k] :
        f \in {f \in DOMAIN errsSeq[k] : errsSeq[k][f] \in Exceptions}}

\* Lines 129-137: aggregate after the loop.
Aggregate(newAcc, errsSeq, k) ==
    LET excs == ExceptionsRaised(errsSeq, k)
    IN IF excs # {}
       THEN [kind |-> "raised", files |-> <<>>, excs |-> excs]
       ELSE [kind |-> "returned", files |-> newAcc, excs |-> {}]

\* Whether the for loop goes on after attempt k reported errs.
LoopContinues(errs, k) == DOMAIN errs # {} /\ k < NTries(retries)

\* One iteration of the loop (lines 122-127), the k-th of the call, and,
\* when the loop ends with it, the aggregation (lines 129-137).  accNow is
\* the local list `files`; the service retrieves `got` of the requested
\* files and reports errs[f] for each of the others.  When open_dataset()
\* made the call (line 161), an ExceptionGroup ends open_dataset() too and a
\* return leads on to the loader.
Iteration(caller, k, accNow, reqs, locs, errsSeq, got, errs) ==
    LET req == MissingFiles(local) IN
    /\ got \subseteq req
    /\ DOMAIN errs = req \ got
    /\ attempt' = k
    /\ requests' = Append(reqs, req)
    /\ localAt' = Append(locs, local)
    /\ errsAt' = Append(errsSeq, errs)
    /\ local' = [f \in DOMAIN local |-> IF f \in got THEN "ok" ELSE local[f]]
    /\ written' = written \cup got
    /\ acc' = accNow \o SetToSeq(got)
    /\ errors' = errs
    /\ IF LoopContinues(errs, k)
       THEN /\ pc' = "retry"
            /\ UNCHANGED <<outcome, calls, cleanRun, result>>
       ELSE /\ outcome' = Aggregate(acc', errsAt', k)
            /\ calls' = calls + 1
            /\ cleanRun' = (cleanRun \/ DOMAIN errs = {})
            /\ pc' = IF caller = "open_dataset" /\ outcome'.kind = "returned"
                     THEN "load" ELSE "idle"
            /\ result' = IF caller = "open_dataset" /\ outcome'.kind # "returned"
                         THEN OpenFailed("ExceptionGroup")
                         ELSE result

\* What the service may answer to a request for req: the files it
\* retrieved and an error for each of the others.
Answers(req) ==
    UNION {{[got |-> got, errs |-> errs] : errs \in [req \ got -> ErrValues]} :
              got \in SUBSET req}

\* download() is entered: lines 120-121 and the first iteration.
DownloadCall(caller) ==
    /\ missing0' = MissingFiles(local)
    /\ cleanAtStart' = cleanRun
    /\ IF NTries(retries) < 1
       THEN \* range(n_tries) is empty: line 130 reads `errors` unbound
            /\ outcome' = [kind |-> "UnboundLocalError", files |-> <<>>, excs |-> {}]
            /\ attempt' = 0 /\ acc' = <<>> /\ errors' = <<>>
            /\ requests' = <<>> /\ localAt' = <<>> /\ errsAt' = <<>>
            /\ calls' = calls + 1
            /\ pc' = "idle"
            /\ result' = IF caller = "open_dataset"
                         THEN OpenFailed("UnboundLocalError")
                         ELSE result
            /\ UNCHANGED <<local, written, cleanRun>>
       ELSE \E a \in Answers(MissingFiles(local)) :
                Iteration(caller, 1, <<>>, <<>>, <<>>, <<>>, a.got, a.errs)

\* The user calls download().
DownloadBegin ==
    /\ pc = "idle"
    /\ calls < MaxCalls
    /\ op' = "download"
    /\ DownloadCall("download")
    /\ UNCHANGED <<files, retries, check_files, args, opened, grouped, combined>>

\* A further iteration of the loop.
DownloadRetry ==
    /\ pc = "retry"
    /\ \E a \in Answers(MissingFiles(local)) :
           Iteration(op, attempt + 1, acc, requests, localAt, errsAt, a.got, a.errs)
    /\ UNCHANGED <<files, retries, check_files, missing0, cleanAtStart,
                   op, args, opened, grouped, combined>>

-----------------------------------------------------------------------------
(* open_dataset *)

\* open_dataset() is called: the arguments are normalised where they are
\* used; with download set, download() runs first (lines 160-161).
OpenBegin ==
    /\ pc = "idle"
    /\ op = "none"
    /\ op' = "open_dataset"
    /\ args' \in ArgChoices
    /\ opened' = <<>> /\ grouped' = <<>> /\ combined' = <<>>
    /\ IF args'.download
       THEN DownloadCall("open_dataset")
       ELSE /\ pc' = "load"
            /\ UNCHANGED <<local, written, attempt, acc, errors, outcome, requests, localAt,
                           errsAt, missing0, calls, cleanRun, cleanAtStart, result>>
    /\ UNCHANGED <<files, retries, check_files>>

\* The loader: every file is opened and put in the bucket of its dataset_id.
LoadGroups ==
    /\ pc = "load"
    /\ LET r == Load([kind |-> "ok", grouped |-> <<>>, opened |-> <<>>], 1) IN
       /\ opened' = r.opened
       /\ grouped' = r.grouped
       /\ IF r.kind = "ok"
          THEN pc' = "groups" /\ UNCHANGED result
          ELSE pc' = "idle" /\ result' = OpenFailed(r.kind)
    /\ UNCHANGED <<dvars_but_pc, op, args, combined>>

\* Every group is combined, reconciled and expanded.
ReconcileGroups ==
    /\ pc = "groups"
    /\ LET r == Reconcile([kind |-> "ok", combined |-> <<>>], 1) IN
       /\ combined' = r.combined
       /\ IF r.kind = "ok"
          THEN pc' = "combine" /\ UNCHANGED result
          ELSE pc' = "idle" /\ result' = OpenFailed(r.kind)
    /\ UNCHANGED <<dvars_but_pc, op, args, opened, grouped>>

\* The groups are combined into the container open_dataset() returns.
CombineGroups ==
    /\ pc = "combine"
    /\ result' = Assemble(combined)
    /\ pc' = "idle"
    /\ UNCHANGED <<dvars_but_pc, op, args, opened, grouped, combined>>

-----------------------------------------------------------------------------
(* Specifications *)

NoOutcome == [kind |-> "none", files |-> <<>>, excs |-> {}]

InitCommon ==
    /\ pc = "idle"
    /\ written = {}
    /\ attempt = 0 /\ acc = <<>> /\ errors = <<>>
    /\ outcome = NoOutcome
    /\ requests = <<>> /\ localAt = <<>> /\ errsAt = <<>>
    /\ missing0 = {}
    /\ calls = 0
    /\ cleanRun = FALSE /\ cleanAtStart = FALSE
    /\ op = "none"
    /\ args = NoArgs
    /\ opened = <<>> /\ grouped = <<>> /\ combined = <<>>
    /\ result = OpenFailed("none")

\* download(): a client over the first n files of the pool, any local
\* store, any retry setting, either check mode.
InitDownload ==
    /\ files \in {SubSeq(Pool, 1, n) : n \in 0..MaxFiles}
    /\ retries \in RetrySettings
    /\ check_files \in BOOLEAN
    /\ local \in [FileIds -> FileStates]
    /\ InitCommon

NextDownload == DownloadBegin \/ DownloadRetry

SpecDownload == InitDownload /\ [][NextDownload]_vars

\* open_dataset(): a client with the default retry setting and check mode
\* (lines 73-74) over any catalog of at most MaxFiles files of the pool.
InitOpen ==
    /\ files \in Catalogs
    /\ retries = 0
    /\ check_files = TRUE
    /\ local \in [FileIds -> {"absent", "ok"}]
    /\ InitCommon

\* With no retries, the download() that open_dataset() calls ends with its
\* first attempt, within OpenBegin.
Next == OpenBegin \/ LoadGroups \/ ReconcileGroups \/ CombineGroups

Spec == InitOpen /\ [][Next]_vars

-----------------------------------------------------------------------------
(* Properties of download(), under SpecDownload *)

\* A download() call has ended (by return or by raise).
DownloadEnded == pc = "idle" /\ op = "download" /\ calls > 0

\* The files missing in the store `store`, by the check mode.
MissingIn(store) ==
    {f \in DOMAIN store :
        IF check_files THEN store[f] # "ok" ELSE store[f] = "absent"}

Max(a, b) == IF a >= b THEN a ELSE b

\* C1, as stated: when download() raises, the ExceptionGroup holds, for
\* every file and exception that any attempt of the call reported, that
\* exception of that file, and not only those of the last attempt; and
\* nothing is raised when the last attempt reports no errors.
C1_GroupHoldsAllAttempts ==
    DownloadEnded =>
        /\ outcome.kind = "raised" =>
              \A e \in GroupOfAll(errsAt, attempt) :
                  \E x \in outcome.excs : x.file = e.file /\ x.err = e.err
        /\ DOMAIN errors = {} => outcome.kind # "raised"

\* C1, amended: the ExceptionGroup holds exactly the Exceptions the last
\* attempt reported, one per file; download() raises if and only if there
\* is one, so never when the last attempt reports no errors.
C1_GroupHoldsLastAttempt ==
    DownloadEnded =>
        /\ outcome.excs =
              {[file |-> f, err |-> errors[f], attempt |-> attempt] :
                  f \in {g \in DOMAIN errors : errors[g] \in Exceptions}}
        /\ outcome.kind = "raised" <=> \E f \in DOMAIN errors : errors[f] \in Exceptions
        /\ DOMAIN errors = {} => outcome.kind = "returned"

\* A call that used two attempts and raised, the first attempt having
\* reported an exception for a file that the last one retrieved.
C1_Witness ==
    /\ DownloadEnded
    /\ outcome.kind = "raised"
    /\ attempt = 2
    /\ \E f \in DOMAIN errsAt[1] :
          errsAt[1][f] \in Exceptions /\ f \notin DOMAIN errsAt[2]

\* C2: in either check mode, a download() call made after a call that
\* succeeded on all files (its last attempt reported no errors) returns the
\* empty list; and a call made when no file is missing requests the
\* retrieval of no file.
C2_Idempotent ==
    DownloadEnded =>
        /\ cleanAtStart => outcome.kind = "returned" /\ outcome.files = <<>>
        /\ missing0 = {} => \A k \in DOMAIN requests : requests[k] = {}

\* A second call on a client whose earlier call had retrieved every file.
C2_Witness ==
    /\ DownloadEnded
    /\ calls >= 2
    /\ cleanAtStart
    /\ files # <<>>
    /\ requests = <<{}>>
    /\ outcome.files = <<>>

\* C3, as stated: a download() call that ends without raising returns as
\* many files as were missing when it started, none of them twice, and
\* leaves no file missing.
C3_Conservation ==
    DownloadEnded /\ outcome.kind = "returned" =>
        /\ Len(outcome.files) = Cardinality(missing0)
        /\ \A i, j \in DOMAIN outcome.files :
              outcome.files[i] = outcome.files[j] => i = j
        /\ MissingIn(local) = {}

\* C4: for every retry setting, a download() call makes at least one and at
\* most max(1, retries + 1) requests, each for the files missing at that
\* moment, and none after an attempt that reported no errors.
C4_BoundedRetry ==
    DownloadEnded =>
        /\ Len(requests) >= 1
        /\ Len(requests) <= Max(1, retries + 1)
        /\ \A k \in DOMAIN requests : requests[k] = MissingIn(localAt[k])
        /\ \A k \in DOMAIN requests : k < Len(requests) => DOMAIN errsAt[k] # {}

\* A call under a negative retry setting: one request, although it failed.
C4_Witness ==
    /\ DownloadEnded
    /\ retries < 0
    /\ Len(requests) = 1
    /\ requests[1] # {}
    /\ DOMAIN errsAt[1] # {}

-----------------------------------------------------------------------------
(* Properties of open_dataset(), under Spec *)

\* open_dataset() has ended (by return or by raise).
OpenEnded == pc = "idle" /\ op = "open_dataset"

\* The loader has run over the whole file list.
LoaderDone ==
    \/ pc \in {"groups", "combine"}
    \/ OpenEnded /\ result.kind \in {"ok", "ParseError", "KeyError", "AlignmentError", "ValueError"}

\* Every group has been reconciled and the cross-group combine has run.
CrossGroupDone ==
    /\ OpenEnded
    /\ result.kind \in {"ok", "AlignmentError", "ValueError"}
    /\ Len(combined) = Len(grouped)

\* The places of the file i in the groups.
PlacesOf(i) ==
    {p \in (DOMAIN grouped) \X (1..Len(files)) :
        p[2] \in DOMAIN grouped[p[1]].from /\ grouped[p[1]].from[p[2]] = i}

\* The container of the file i keeps a position along every dimension
\* under the sub-selection.
Survives(i) ==
    \A d \in DOMAIN files[i].ds.sizes :
        IF d \in DOMAIN args.sel /\ d \in DOMAIN files[i].ds.idx
        THEN \E j \in DOMAIN files[i].ds.idx[d] :
                 /\ args.sel[d].lo <= files[i].ds.idx[d][j]
                 /\ files[i].ds.idx[d][j] <= args.sel[d].hi
        ELSE files[i].ds.sizes[d] # 0

NTokens(id) == Cardinality({j \in DOMAIN id : id[j] = "."}) + 1

Malformed(id) == NTokens(id) # Len(DATASET_ID_KEYS)

\* C5, as stated: after the loader, the dataset_id of every file is the
\* identity of exactly one group, every file has a container in exactly one
\* group, and the groups' members together are the file list.
C5_PartitionOfAllFiles ==
    LoaderDone =>
        /\ \A i \in FileIds :
              Cardinality({k \in DOMAIN grouped : grouped[k].id = files[i].dataset_id}) = 1
        /\ \A i \in FileIds : Cardinality(PlacesOf(i)) = 1
        /\ UNION {Range(grouped[k].from) : k \in DOMAIN grouped} = FileIds

\* C5, amended: the groups partition the files whose container has no
\* dimension of length zero after the sub-selection: each of these has a
\* container in exactly one group, the one of its dataset_id, and a file
\* whose container is empty is in no group; no two groups share an identity
\* and no group is empty.
C5_PartitionOfSurvivors ==
    LoaderDone =>
        /\ \A i \in FileIds :
              /\ Cardinality(PlacesOf(i)) = IF Survives(i) THEN 1 ELSE 0
              /\ \A p \in PlacesOf(i) : grouped[p[1]].id = files[i].dataset_id
        /\ \A k, h \in DOMAIN grouped : grouped[k].id = grouped[h].id => k = h
        /\ \A k \in DOMAIN grouped :
              Len(grouped[k].members) = Len(grouped[k].from) /\ grouped[k].from # <<>>

\* The loader kept one file and discarded the other.
C5_Witness ==
    /\ LoaderDone
    /\ Len(files) = 2
    /\ \E i, j \in FileIds : Survives(i) /\ ~Survives(j)
    /\ Len(grouped) = 1

\* C9, as stated: every file is opened, in catalog order, from its URL if
\* it is not in the local store and from its local path if it is, whatever
\* the download flag; and without the download flag nothing is written to
\* the local store.
C9_LocationByPresence ==
    op = "open_dataset" =>
        /\ \A k \in DOMAIN opened :
              /\ opened[k].file = k
              /\ opened[k].loc = IF local[k] = "ok" THEN "local" ELSE "url"
        /\ ~args.download => written = {}

\* C9, amended: every file is opened, in catalog order, from its local path
\* when the download flag is set and from its URL when it is not, whether
\* or not the file is in the local store; without the download flag no
\* retrieval is requested and nothing is written to the local store.
C9_LocationByFlag ==
    op = "open_dataset" =>
        /\ \A k \in DOMAIN opened :
              /\ opened[k].file = k
              /\ opened[k].loc = IF args.download THEN "local" ELSE "url"
        /\ LoaderDone => Len(opened) = Len(files)
        /\ ~args.download => written = {} /\ requests = <<>>

\* Without the download flag, a file that is in the local store was opened
\* from its URL.
C9_Witness ==
    /\ LoaderDone
    /\ ~args.download
    /\ \E k \in DOMAIN opened : local[k] = "ok" /\ opened[k].loc = "url"

\* C8, as stated: when a file of the list has a dataset_id that does not
\* split into ten tokens, open_dataset() returns no container.
C8_MalformedIdIsFatal ==
    OpenEnded /\ (\E i \in FileIds : Malformed(files[i].dataset_id)) =>
        result.kind # "ok"

\* C8, amended: when a group the loader made (of files whose container is
\* not empty) has a dataset_id that does not split into ten tokens,
\* open_dataset() returns no container, and the error is a ParseError unless
\* an earlier group failed to combine; a file discarded by the loader is
\* never parsed.  The codec yields all ten keys or fails.
C8_MalformedGroupIsFatal ==
    /\ OpenEnded /\ LoaderDone /\ (\E k \in DOMAIN grouped : Malformed(grouped[k].id)) =>
          LET k == CHOOSE h \in DOMAIN grouped :
                       /\ Malformed(grouped[h].id)
                       /\ \A g \in 1..(h - 1) : ~Malformed(grouped[g].id)
          IN /\ result.kind # "ok"
             /\ Len(combined) < k
             /\ Len(combined) = k - 1 => result.kind = "ParseError"
    /\ \A i \in FileIds :
          LET parsed == dataset_id_to_dict(files[i].dataset_id)
          IN /\ parsed.err <=> Malformed(files[i].dataset_id)
             /\ ~parsed.err =>
                   /\ DOMAIN parsed.dict = Range(DATASET_ID_KEYS)
                   /\ Cardinality(DOMAIN parsed.dict) = 10

\* open_dataset() ended with a ParseError on the second group.
C8_Witness ==
    /\ OpenEnded
    /\ result.kind = "ParseError"
    /\ Len(grouped) = 2
    /\ Malformed(grouped[2].id)
    /\ Len(combined) = 1

\* The value of the identity field d in the dataset_id id.
Field(id, d) == Split(id, ".")[KeyIndex(d)]

\* The concat dims the caller chose.
Chosen ==
    IF args.concat_dims.t = "str" THEN {args.concat_dims.s}
    ELSE IF args.concat_dims.t = "list" THEN Range(args.concat_dims.l)
    ELSE {}

\* C7: the container open_dataset() returns has, for every chosen concat
\* dim, an axis of that name whose labels are exactly the distinct values
\* the groups carry for that field, each once (k labels for k groups with k
\* distinct values, fewer when groups share a value); it has no axis named
\* after an identity field that was not chosen, so none at all when
\* concat_dims is empty or None.
C7_AxisOfDistinctValues ==
    OpenEnded /\ result.kind = "ok" =>
        /\ \A d \in Chosen :
              combined # <<>> =>
                  LET values == {Field(combined[k].id, d) : k \in DOMAIN combined}
                  IN /\ d \in DOMAIN result.ds.idx
                     /\ Range(result.ds.idx[d]) = values
                     /\ Len(result.ds.idx[d]) = Cardinality(values)
                     /\ result.ds.sizes[d] = Cardinality(values)
        /\ \A key \in Range(DATASET_ID_KEYS) \ Chosen :
              key \notin DOMAIN result.ds.sizes /\ key \notin Range(result.ds.dims)

\* Two groups of two experiments, opened with concat_dims="experiment_id".
C7_Witness ==
    /\ OpenEnded
    /\ result.kind = "ok"
    /\ Len(combined) = 2
    /\ Chosen = {"experiment_id"}
    /\ Len(result.ds.idx["experiment_id"]) = 2

\* The first member of the group k as the loader kept it.
Member(k) == grouped[k].members[1]

\* The variables without dimensions of the group k.
Scalars(k) == {v \in DOMAIN Member(k).vars : Member(k).vars[v].dims = {}}

\* C10, as stated: after reconciliation, every coordinate without
\* dimensions of a group is no variable of the group any more, every data
\* variable of the group carries its value as an attribute, and the value
\* is kept on some variable of the group.
C10_ScalarNeverLost ==
    \A k \in DOMAIN combined :
        \A s \in Scalars(k) :
            LET rec == combined[k].reconciled
            IN /\ s \notin Variables(rec)
               /\ \A v \in DataVars(rec) :
                     s \in DOMAIN rec.vars[v].attrs /\
                     rec.vars[v].attrs[s] = Member(k).vars[s].val[1]
               /\ \E v \in DOMAIN rec.vars :
                     s \in DOMAIN rec.vars[v].attrs /\
                     rec.vars[v].attrs[s] = Member(k).vars[s].val[1]

\* The groups whose reconciled container holds the data variable v.
Holding(v) == {k \in DOMAIN combined : v \in DataVars(combined[k].reconciled)}

\* C10, amended: after reconciliation, every coordinate without dimensions
\* of a group is no variable of the group any more and its value is an
\* attribute of every data variable of the group (the variables that have
\* the time dimension and no bounds dimension) and of no other variable and
\* no other group; a group without data variables keeps the value nowhere.
\* In the container returned, a data variable carries the scalar exactly
\* when the groups that hold the variable agree on its value.
C10_ScalarOnDataVars ==
    /\ \A k \in DOMAIN combined :
          LET rec == combined[k].reconciled
          IN /\ \A s \in Scalars(k) : s \notin Variables(rec)
             /\ DataVars(rec) =
                   {v \in DOMAIN Member(k).vars :
                       "time" \in Member(k).vars[v].dims /\
                       Member(k).vars[v].dims \cap BOUNDS_DIMS = {}}
             /\ \A v \in DataVars(rec) :
                   /\ DOMAIN rec.vars[v].attrs = Scalars(k)
                   /\ \A s \in Scalars(k) :
                         rec.vars[v].attrs[s] = Member(k).vars[s].val[1]
             /\ \A v \in DOMAIN rec.vars \ DataVars(rec) : rec.vars[v].attrs = <<>>
    /\ OpenEnded /\ result.kind = "ok" =>
          \A v \in DOMAIN result.ds.vars :
              \A s \in UNION {Scalars(k) : k \in DOMAIN combined} :
                  LET given == {Member(k).vars[s].val[1] :
                                   k \in {h \in Holding(v) : s \in Scalars(h)}}
                  IN IF Cardinality(given) = 1 /\ \A h \in Holding(v) : s \in Scalars(h)
                     THEN s \in DOMAIN result.ds.vars[v].attrs /\
                          result.ds.vars[v].attrs[s] \in given
                     ELSE Cardinality(given) # 1 => s \notin DOMAIN result.ds.vars[v].attrs

\* A group whose data variable tas carries height, next to a group without
\* data variables whose scalar is kept nowhere.
C10_Witness ==
    \E k, h \in DOMAIN combined :
        /\ "tas" \in DataVars(combined[k].reconciled)
        /\ combined[k].reconciled.vars["tas"].attrs = [s \in {"height"} |-> 2]
        /\ "type" \in Scalars(h)
        /\ DataVars(combined[h].reconciled) = {}

\* The expanded containers of the groups k and h disagree on the labels of
\* an index both have, those of `except` left out.
Disagree(k, h, except) ==
    \E d \in (DOMAIN combined[k].ds.idx \cap DOMAIN combined[h].ds.idx) \ except :
        combined[k].ds.idx[d] # combined[h].ds.idx[d]

\* No two groups hold the same variables.
OwnVariables ==
    \A k, h \in DOMAIN combined :
        DOMAIN combined[k].ds.vars = DOMAIN combined[h].ds.vars => k = h

\* The loader suppressed lat and lon in the group k.
Suppressed(k) == args.ignore \cap Variables(files[grouped[k].from[1]].ds) # {}

====
